---- MODULE Spec2Model ----
(***************************************************************************)
(* Ticket bot: the configuration Store (src/config.py), the ticket         *)
(* creation wizard (src/cogs/tickets.py) and the ticket management         *)
(* handlers (src/cogs/ticket_management.py), as one state machine.         *)
(* A state of the model is a point where every coroutine is suspended at   *)
(* an await (or has not started / has returned); an action is the code a   *)
(* coroutine runs between two suspension points.                           *)
(***************************************************************************)
EXTENDS Integers, Sequences, FiniteSets, TLC

\* ------------------------------------------------------------------ bounds
\* channels the platform lets the bot create in a behaviour of Spec
MaxChannels == 1
\* channels the platform lets the bot create in a behaviour of SerialSpec
MaxSerialChannels == 3

\* files in the transcripts directory in a behaviour of SearchSpec
MaxFiles == 2

\* channels the platform lets the bot create in a behaviour of RaceSpec
MaxRaceChannels == 2

\* channels the platform lets the bot create in a behaviour of CounterSpec
MaxCounterChannels == 3

\* cooldown buttons pressed in a behaviour of PanelSpec
MaxPresses == 3

\* seconds the clock advances in one step, and the time at which it stops
TickSeconds == 15
MaxClock    == 45

\* ------------------------------------------------------- program constants
None == 0
DefaultCooldown == 30

\* guild members: 1 is an ordinary member, 2 holds the role StaffRole,
\* 3 has the administrator permission
Users      == {1, 2, 3}
Admins     == {3}
StaffRole  == 7
Roles      == {StaffRole}
RolesOf(u) == IF u = 2 THEN {StaffRole} ELSE {}
\* the members who are added to or removed from tickets
Targets    == {1, 2}

\* wizard runs and management handlers that can be in progress at once
Wizards  == {"w1", "w2"}
Handlers == {"h1", "h2"}
\* the channel transcripts are posted to (never a ticket channel)
TranscriptChannel == 99

Countries      == {"US"}
PaymentMethods == {"PayPal"}
Links          == {"http://g"}
NoLink         == "No link provided"
Now            == "2024-01-01 00:00:00"

\* ------------------------------------------------------------- conversions
Digit(d) == CASE d = 0 -> "0" [] d = 1 -> "1" [] d = 2 -> "2" [] d = 3 -> "3"
              [] d = 4 -> "4" [] d = 5 -> "5" [] d = 6 -> "6" [] d = 7 -> "7"
              [] d = 8 -> "8" [] d = 9 -> "9"

DigitVal(c) == CASE c = "0" -> 0 [] c = "1" -> 1 [] c = "2" -> 2 [] c = "3" -> 3
                 [] c = "4" -> 4 [] c = "5" -> 5 [] c = "6" -> 6 [] c = "7" -> 7
                 [] c = "8" -> 8 [] c = "9" -> 9

RECURSIVE str(_)
\* Python str() of a non-negative int: its decimal digits
str(n) == IF n < 10 THEN <<Digit(n)>> ELSE str(n \div 10) \o <<Digit(n % 10)>>

RECURSIVE int(_)
\* Python int() of a string of decimal digits
int(s) == IF Len(s) = 1 THEN DigitVal(s[1])
          ELSE 10 * int(SubSeq(s, 1, Len(s) - 1)) + DigitVal(s[Len(s)])

\* dict.get(key, default)
DictGet(d, k, default) == IF k \in DOMAIN d THEN d[k] ELSE default

\* d[k] = v on a dict
DictSet(d, k, v) == (k :> v) @@ d

\* del d[k]
DictDel(d, k) == [x \in (DOMAIN d) \ {k} |-> d[x]]

\* ------------------------------------------------------------------- Store
\* A Store value c is the Config object together with its backing file:
\* c.data is Config.data, c.file is the document last written to config.json.

DEFAULT_CONFIG ==
    [ tickets               |-> <<>>,
      staff_role_ids        |-> <<>>,
      ticket_counter        |-> 0,
      ticket_category_id    |-> None,
      ticket_channel_id     |-> None,
      transcript_channel_id |-> None,
      ticket_cooldown       |-> DefaultCooldown ]

\* json.dump(self.data, f): every key of the document and of the ticket
\* table is already a string and every value an int, a string, None or a
\* list of ints, so the written document has the shape of the dump's input
save(c) == [c EXCEPT !.file = c.data]

get(c, key, default) == DictGet(c.data, key, default)

\* set that leaves the file as it was
set_unsaved(c, key, value) == [c EXCEPT !.data = DictSet(c.data, key, value)]

set(c, key, value) == save([c EXCEPT !.data = DictSet(c.data, key, value)])

add_ticket(c, channel_id, user_id, d) ==
    LET base    == IF "tickets" \in DOMAIN c.data THEN c.data
                   ELSE DictSet(c.data, "tickets", <<>>)
        rec     == [ user_id        |-> user_id,
                     status         |-> "open",
                     created_at     |-> DictGet(d, "created_at", ""),
                     country        |-> DictGet(d, "country", ""),
                     group_link     |-> DictGet(d, "group_link", ""),
                     payment_method |-> DictGet(d, "payment_method", "") ]
        tickets == DictSet(base.tickets, str(channel_id), rec)
    IN  save([c EXCEPT !.data = DictSet(base, "tickets", tickets)])

\* get_ticket returns None for an unknown channel
get_ticket(c, channel_id) ==
    DictGet(DictGet(c.data, "tickets", <<>>), str(channel_id), None)

has_ticket(c, channel_id) ==
    str(channel_id) \in DOMAIN DictGet(c.data, "tickets", <<>>)

\* update_ticket_status that flips a closed record back to open
update_ticket_status_toggle(c, channel_id, status) ==
    IF "tickets" \in DOMAIN c.data /\ str(channel_id) \in DOMAIN c.data.tickets
    THEN save([c EXCEPT !.data.tickets[str(channel_id)].status =
                          IF @ = "closed" THEN "open" ELSE status])
    ELSE c

\* update_ticket_status that writes the status into every record
update_ticket_status_all(c, channel_id, status) ==
    IF "tickets" \in DOMAIN c.data /\ str(channel_id) \in DOMAIN c.data.tickets
    THEN save([c EXCEPT !.data.tickets =
                          [k \in DOMAIN @ |-> [@[k] EXCEPT !.status = status]]])
    ELSE c

update_ticket_status(c, channel_id, status) ==
    IF "tickets" \in DOMAIN c.data /\ str(channel_id) \in DOMAIN c.data.tickets
    THEN save([c EXCEPT !.data.tickets[str(channel_id)].status = status])
    ELSE c

\* delete_ticket that looks the record up under the int key, which the table
\* never holds
delete_ticket_int_key(c, channel_id) == c

delete_ticket(c, channel_id) ==
    IF "tickets" \in DOMAIN c.data /\ str(channel_id) \in DOMAIN c.data.tickets
    THEN save([c EXCEPT !.data.tickets = DictDel(c.data.tickets, str(channel_id))])
    ELSE c

\* Config.__init__ when config.json is absent or unparsable
InitialConfig == save([data |-> DEFAULT_CONFIG, file |-> <<>>])

\* ------------------------------------------------------------------- state
VARIABLES
    config,     \* the Store: Config.data and the document in config.json
    chan,       \* existing ticket channels: id -> name and member overwrites
    nextId,     \* id the platform gives to the next channel it creates
    wiz,        \* one TicketCreationHandler per wizard run in progress
    hnd,        \* one management command / button handler per slot
    deleted,    \* channels whose deletion was confirmed (history)
    last,       \* what the step just taken sent, posted or wrote to disk
    now,        \* the wall clock (datetime.now()), in seconds
    attempts,   \* when each member last pressed the create button (history)
    timedOut,   \* channels of the runs in which a wait timed out (history)
    found,      \* the last search_transcripts call: its arguments and result
    panel,      \* the CooldownView each settings panel shows, if any
    presses     \* the changes asked for by the cooldown buttons pressed (history)

vars == <<config, chan, nextId, wiz, hnd, deleted, last, now, attempts, timedOut, found,
          panel, presses>>

\* TicketCreationHandler.__init__
NewHandler ==
    [ pc |-> "idle", user |-> None, ticket_number |-> 0, ticket_channel |-> None,
      data |-> <<>>, timed_out |-> FALSE ]

\* no press of the create button yet
Never == -1

\* no search_transcripts call yet
NoSearch == [called |-> FALSE]

\* the settings panels open at once (one per /settings message)
Panels == {"p1", "p2"}

\* a settings panel that does not show the cooldown page
NoView == [open |-> FALSE, cooldown |-> 0]

\* a management handler slot with no invocation in progress
IdleHandler ==
    [ pc |-> "idle", op |-> "none", channel |-> None,
      user_id |-> None, user |-> FALSE, transcript_channel |-> None,
      new_name |-> [number |-> 0, closed |-> 0] ]

Init ==
    /\ config  = InitialConfig
    /\ chan    = <<>>
    /\ nextId  = 1
    /\ wiz     = [w \in Wizards |-> NewHandler]
    /\ hnd     = [h \in Handlers |-> IdleHandler]
    /\ deleted = {}
    /\ last    = {}
    /\ now     = 0
    /\ attempts = [u \in Users |-> Never]
    /\ timedOut = {}
    /\ found   = NoSearch
    /\ panel   = [p \in Panels |-> NoView]
    /\ presses = <<>>

\* guild.get_channel(id): the channel, or None when it does not exist
Resolves(c) == c \in DOMAIN chan

\* f"ticket-{number:04d}" followed by the "-closed" suffixes appended so far
ChannelName(number, closed) == [number |-> number, closed |-> closed]

\* ------------------------------------------------------------------ wizard
\* the ticket table as start_flow scans it
Tickets == get(config, "tickets", <<>>)

\* start_flow's entry guard: some record of the user is open and its channel
\* resolves in the guild
ExistingOpenTicket(u) ==
    \E k \in DOMAIN Tickets :
        /\ Tickets[k].user_id = u
        /\ Tickets[k].status = "open"
        /\ Resolves(int(k))

\* the run returns and its handler object is dropped
WizEnd(w, report) ==
    /\ wiz' = [wiz EXCEPT ![w] = NewHandler]
    /\ last' = {report}

\* the run returns without having sent or posted anything
WizReturn(w) ==
    /\ wiz' = [wiz EXCEPT ![w] = NewHandler]
    /\ last' = {}

WizGo(w, r) ==
    /\ wiz' = [wiz EXCEPT ![w] = r]
    /\ last' = {}

\* TicketButton.callback -> start_flow up to the first await of
\* create_ticket_channel: the guard, then the read of the counter
StartFlow(w, u) ==
    /\ wiz[w].pc = "idle"
    /\ IF ExistingOpenTicket(u)
       THEN WizEnd(w, "already_open")
       ELSE WizGo(w, [NewHandler EXCEPT !.pc = "creating", !.user = u,
                        !.ticket_number = get(config, "latest_ticket_number", 0) + 1])
    /\ attempts' = [attempts EXCEPT ![u] = now]
    /\ UNCHANGED <<config, chan, nextId, hnd, deleted, now, timedOut, found, panel, presses>>

\* create_ticket_channel taking the number from the counter as it is when the
\* channel is created
CreateChannelOk_rereads(w) ==
    /\ wiz[w].pc = "creating"
    /\ LET number == get(config, "latest_ticket_number", 0) + 1 IN
       /\ chan' = DictSet(chan, nextId,
                     [ name |-> ChannelName(number, 0), overwrites |-> {wiz[w].user} ])
       /\ config' = set(config, "latest_ticket_number", number)
       /\ WizGo(w, [wiz[w] EXCEPT !.pc = "country",
                                  !.ticket_number = number,
                                  !.ticket_channel = nextId,
                                  !.data = [ user_id |-> wiz[w].user, created_at |-> Now,
                                             status |-> "open" ]])
    /\ nextId' = nextId + 1
    /\ UNCHANGED <<hnd, deleted, now, attempts, timedOut, found, panel, presses>>

\* create_ticket_channel from guild.create_text_channel on, then start_flow
\* steps 3-5 up to the wait on the country view
CreateChannelOk(w) ==
    /\ wiz[w].pc = "creating"
    /\ chan' = DictSet(chan, nextId,
                  [ name |-> ChannelName(wiz[w].ticket_number, 0),
                    overwrites |-> {wiz[w].user} ])
    /\ nextId' = nextId + 1
    /\ config' = set(config, "latest_ticket_number", wiz[w].ticket_number)
    /\ WizGo(w, [wiz[w] EXCEPT !.pc = "country",
                               !.ticket_channel = nextId,
                               !.data = [ user_id |-> wiz[w].user, created_at |-> Now,
                                          status |-> "open" ]])
    /\ UNCHANGED <<hnd, deleted, now, attempts, timedOut, found, panel, presses>>

\* a failed channel creation that still writes the counter back
CreateChannelFail_consumes(w) ==
    /\ wiz[w].pc = "creating"
    /\ config' = set(config, "latest_ticket_number", wiz[w].ticket_number)
    /\ WizEnd(w, "create_failed")
    /\ UNCHANGED <<chan, nextId, hnd, deleted, now, attempts, timedOut, found, panel, presses>>

\* create_ticket_channel raising (no category, platform error): returns False
CreateChannelFail(w) ==
    /\ wiz[w].pc = "creating"
    /\ WizEnd(w, "create_failed")
    /\ UNCHANGED <<config, chan, nextId, hnd, deleted, now, attempts, timedOut, found, panel, presses>>

\* a wizard view can be used while its channel exists
ViewUsable(w) == Resolves(wiz[w].ticket_channel)

\* CountrySelectionView button, then start_ticket_questionnaire returns True
\* and process_ticket_flow shows the group link view
CountryPick(w, c) ==
    /\ wiz[w].pc = "country"
    /\ ViewUsable(w)
    /\ WizGo(w, [wiz[w] EXCEPT !.pc = "group_link",
                               !.data = DictSet(wiz[w].data, "country", c)])
    /\ UNCHANGED <<config, chan, nextId, hnd, deleted, now, attempts, timedOut, found, panel, presses>>

\* the country view times out: view.value is None, start_ticket_questionnaire
\* sets timed_out and returns False, and start_flow returns on "not result"
\* before it reaches the call of _handle_timeout
CountryTimeout(w) ==
    /\ wiz[w].pc = "country"
    /\ WizReturn(w)
    /\ timedOut' = timedOut \cup {wiz[w].ticket_channel}
    /\ UNCHANGED <<config, chan, nextId, hnd, deleted, now, attempts, found, panel, presses>>

\* GroupLinkView "Yes": process_ticket_flow prompts for the link and waits for
\* a message
GroupLinkYes(w) ==
    /\ wiz[w].pc = "group_link"
    /\ ViewUsable(w)
    /\ WizGo(w, [wiz[w] EXCEPT !.pc = "link_text",
                               !.data = DictSet(wiz[w].data, "has_group_link", TRUE)])
    /\ UNCHANGED <<config, chan, nextId, hnd, deleted, now, attempts, timedOut, found, panel, presses>>

\* the "no link" branch recording an empty group link
NoGroupLink_blank(w) ==
    [wiz[w] EXCEPT !.pc = "payment",
                   !.data = DictSet(DictSet(wiz[w].data, "has_group_link", FALSE),
                                    "group_link", "")]

\* process_ticket_flow's branch for a falsy group_link_view.value: records
\* "No link provided" and shows the payment view
NoGroupLink(w) ==
    [wiz[w] EXCEPT !.pc = "payment",
                   !.data = DictSet(DictSet(wiz[w].data, "has_group_link", FALSE),
                                    "group_link", NoLink)]

\* GroupLinkView "No" that still asks for the link text
GroupLinkNo_asks(w) ==
    /\ wiz[w].pc = "group_link"
    /\ ViewUsable(w)
    /\ WizGo(w, [NoGroupLink(w) EXCEPT !.pc = "link_text"])
    /\ UNCHANGED <<config, chan, nextId, hnd, deleted, now, attempts, timedOut, found, panel, presses>>

\* GroupLinkView "No"
GroupLinkNo(w) ==
    /\ wiz[w].pc = "group_link"
    /\ ViewUsable(w)
    /\ WizGo(w, NoGroupLink(w))
    /\ UNCHANGED <<config, chan, nextId, hnd, deleted, now, attempts, timedOut, found, panel, presses>>

\* The group link view times out. The library wakes the flow waiting in
\* view.wait() and starts on_timeout as a task of its own; the two run in the
\* same turn of the event loop, in an order the library decides.
\*   callback_first: on_timeout sets timed_out, then the flow resumes, sees it
\*                   and returns; start_flow skips update_ticket_info
\*   resume_first:   the flow resumes with timed_out still False and value
\*                   None, takes the "no link" branch and shows the payment
\*                   view; then on_timeout sets timed_out
GroupLinkTimeout(w, callback_first) ==
    /\ wiz[w].pc = "group_link"
    /\ IF callback_first
       THEN WizReturn(w)
       ELSE IF ViewUsable(w)
            THEN WizGo(w, [NoGroupLink(w) EXCEPT !.timed_out = TRUE])
            ELSE WizEnd(w, "error")
    /\ timedOut' = timedOut \cup {wiz[w].ticket_channel}
    /\ UNCHANGED <<config, chan, nextId, hnd, deleted, now, attempts, found, panel, presses>>

\* wait_for_message returns the user's message: the link is recorded and the
\* payment view shown
LinkMessage(w, link) ==
    /\ wiz[w].pc = "link_text"
    /\ ViewUsable(w)
    /\ WizGo(w, [wiz[w] EXCEPT !.pc = "payment",
                               !.data = DictSet(wiz[w].data, "group_link", link)])
    /\ UNCHANGED <<config, chan, nextId, hnd, deleted, now, attempts, timedOut, found, panel, presses>>

\* a wait for the link message that has no timeout
LinkTimeout_unbounded(w) ==
    /\ wiz[w].pc = "link_text"
    /\ FALSE
    /\ UNCHANGED vars

\* wait_for_message returns None after its timeout: timed_out is set and
\* start_flow skips update_ticket_info
LinkTimeout(w) ==
    /\ wiz[w].pc = "link_text"
    /\ WizReturn(w)
    /\ timedOut' = timedOut \cup {wiz[w].ticket_channel}
    /\ UNCHANGED <<config, chan, nextId, hnd, deleted, now, attempts, found, panel, presses>>

\* a payment selection that lets a timed-out run go on to write its record
PaymentSelect_resumes(w, p) ==
    /\ wiz[w].pc = "payment"
    /\ ViewUsable(w)
    /\ WizGo(w, [wiz[w] EXCEPT !.pc = "finalizing",
                               !.data = DictSet(wiz[w].data, "payment_method", p)])
    /\ UNCHANGED <<config, chan, nextId, hnd, deleted, now, attempts, timedOut, found, panel, presses>>

\* PaymentMethodSelect.callback, then process_ticket_flow returns to
\* start_flow, which calls update_ticket_info only if timed_out is False
PaymentSelect(w, p) ==
    /\ wiz[w].pc = "payment"
    /\ ViewUsable(w)
    /\ IF wiz[w].timed_out
       THEN WizReturn(w)
       ELSE WizGo(w, [wiz[w] EXCEPT !.pc = "finalizing",
                                    !.data = DictSet(wiz[w].data, "payment_method", p)])
    /\ UNCHANGED <<config, chan, nextId, hnd, deleted, now, attempts, timedOut, found, panel, presses>>

\* the payment view times out: payment_view.value is None, timed_out is set
\* and start_flow skips update_ticket_info
PaymentTimeout(w) ==
    /\ wiz[w].pc = "payment"
    /\ WizReturn(w)
    /\ timedOut' = timedOut \cup {wiz[w].ticket_channel}
    /\ UNCHANGED <<config, chan, nextId, hnd, deleted, now, attempts, found, panel, presses>>

\* update_ticket_info drawing a ticket number from the counter when it writes
\* the record
Finalize_draws(w) ==
    /\ wiz[w].pc = "finalizing"
    /\ IF Resolves(wiz[w].ticket_channel)
       THEN /\ config' = set(add_ticket(config, wiz[w].ticket_channel, wiz[w].user,
                                        wiz[w].data),
                             "latest_ticket_number",
                             get(config, "latest_ticket_number", 0) + 1)
            /\ WizEnd(w, "created")
       ELSE /\ config' = config
            /\ WizEnd(w, "error")
    /\ UNCHANGED <<chan, nextId, hnd, deleted, now, attempts, timedOut, found, panel, presses>>

\* update_ticket_info: edits the ticket message, pings staff, then writes the
\* record; a vanished channel makes the edit raise and start_flow report it
Finalize(w) ==
    /\ wiz[w].pc = "finalizing"
    /\ IF Resolves(wiz[w].ticket_channel)
       THEN /\ config' = add_ticket(config, wiz[w].ticket_channel, wiz[w].user,
                                    wiz[w].data)
            /\ WizEnd(w, "created")
       ELSE /\ config' = config
            /\ WizEnd(w, "error")
    /\ UNCHANGED <<chan, nextId, hnd, deleted, now, attempts, timedOut, found, panel, presses>>

\* the steps of the wizard runs W, started by the members U, while the
\* platform creates at most cap channels
WizardStep(W, U, cap) ==
    \E w \in W :
        \/ \E u \in U : StartFlow(w, u)
        \/ nextId <= cap /\ CreateChannelOk(w)
        \/ CreateChannelFail(w)
        \/ \E c \in Countries : CountryPick(w, c)
        \/ CountryTimeout(w)
        \/ GroupLinkYes(w)
        \/ GroupLinkNo(w)
        \/ \E b \in BOOLEAN : GroupLinkTimeout(w, b)
        \/ \E l \in Links : LinkMessage(w, l)
        \/ LinkTimeout(w)
        \/ \E p \in PaymentMethods : PaymentSelect(w, p)
        \/ PaymentTimeout(w)
        \/ Finalize(w)

\* -------------------------------------------------------------- management
Range(s) == {s[i] : i \in DOMAIN s}

\* TicketManagement.is_ticket_channel
is_ticket_channel(c) == has_ticket(config, c)

\* check_permissions whose last test only asks whether the ticket has an owner
check_permissions_any_owner(actor, c) ==
    \/ actor \in Admins
    \/ \E role \in RolesOf(actor) : role \in Range(get(config, "staff_role_ids", <<>>))
    \/ /\ has_ticket(config, c)
       /\ get_ticket(config, c).user_id # None

\* TicketManagement.check_permissions for an interaction of actor in channel c
check_permissions(actor, c) ==
    \/ actor \in Admins
    \/ \E role \in RolesOf(actor) : role \in Range(get(config, "staff_role_ids", <<>>))
    \/ /\ has_ticket(config, c)
       /\ get_ticket(config, c).user_id = actor

\* a slash command or button can be used by a member in an existing channel,
\* on a handler slot that is free
CanInvoke(h, actor, c) ==
    /\ hnd[h].pc = "idle"
    /\ Resolves(c)

\* the handler waits on its ConfirmationView (only the invoking actor can
\* answer it: interaction_check)
Confirming(op, c) ==
    [IdleHandler EXCEPT !.pc = "confirm", !.op = op, !.channel = c]

\* the handler returns after reporting msg
Finish(h, msg) ==
    /\ hnd' = [hnd EXCEPT ![h] = IdleHandler]
    /\ last' = {msg}

\* the handler is suspended at its next await, having posted msgs
Suspend(h, r, msgs) ==
    /\ hnd' = [hnd EXCEPT ![h] = r]
    /\ last' = msgs

\* ticket_add: the guards, then channel.set_permissions(user, ...)
ticket_add(h, actor, c, target) ==
    /\ CanInvoke(h, actor, c)
    /\ IF ~is_ticket_channel(c)
       THEN Finish(h, "not_ticket_channel") /\ chan' = chan
       ELSE IF ~check_permissions(actor, c)
       THEN Finish(h, "no_permission") /\ chan' = chan
       ELSE \/ Finish(h, "forbidden") /\ chan' = chan
            \/ /\ Finish(h, "added")
               /\ chan' = [chan EXCEPT ![c].overwrites = @ \cup {target}]
    /\ UNCHANGED <<config, nextId, wiz, deleted, now, attempts, timedOut, found, panel, presses>>

\* ticket_remove without the owner check
ticket_remove_any(h, actor, c, target) ==
    /\ CanInvoke(h, actor, c)
    /\ IF ~is_ticket_channel(c)
       THEN Finish(h, "not_ticket_channel") /\ chan' = chan
       ELSE IF ~check_permissions(actor, c)
       THEN Finish(h, "no_permission") /\ chan' = chan
       ELSE \/ Finish(h, "forbidden") /\ chan' = chan
            \/ /\ Finish(h, "removed")
               /\ chan' = [chan EXCEPT ![c].overwrites = @ \ {target}]
    /\ UNCHANGED <<config, nextId, wiz, deleted, now, attempts, timedOut, found, panel, presses>>

\* ticket_remove: the guards, the owner check, then
\* channel.set_permissions(user, overwrite=None)
ticket_remove(h, actor, c, target) ==
    /\ CanInvoke(h, actor, c)
    /\ IF ~is_ticket_channel(c)
       THEN Finish(h, "not_ticket_channel") /\ chan' = chan
       ELSE IF ~check_permissions(actor, c)
       THEN Finish(h, "no_permission") /\ chan' = chan
       ELSE IF get_ticket(config, c).user_id = target
       THEN Finish(h, "cannot_remove_creator") /\ chan' = chan
       ELSE \/ Finish(h, "forbidden") /\ chan' = chan
            \/ /\ Finish(h, "removed")
               /\ chan' = [chan EXCEPT ![c].overwrites = @ \ {target}]
    /\ UNCHANGED <<config, nextId, wiz, deleted, now, attempts, timedOut, found, panel, presses>>

\* close without the already-closed check
CloseStart_unguarded(h, actor, c) ==
    /\ CanInvoke(h, actor, c)
    /\ IF ~is_ticket_channel(c) THEN Finish(h, "not_ticket_channel")
       ELSE IF ~check_permissions(actor, c) THEN Finish(h, "no_permission")
       ELSE Suspend(h, Confirming("close", c), {"confirm_dialog"})
    /\ UNCHANGED <<config, chan, nextId, wiz, deleted, now, attempts, timedOut, found, panel, presses>>

\* ticket_close and handle_close_button (the same steps, reached by the
\* command or by the button) up to the wait on the confirmation dialog
CloseStart(h, actor, c) ==
    /\ CanInvoke(h, actor, c)
    /\ IF ~is_ticket_channel(c) THEN Finish(h, "not_ticket_channel")
       ELSE IF ~check_permissions(actor, c) THEN Finish(h, "no_permission")
       ELSE IF get_ticket(config, c).status = "closed" THEN Finish(h, "already_closed")
       ELSE Suspend(h, Confirming("close", c), {"confirm_dialog"})
    /\ UNCHANGED <<config, chan, nextId, wiz, deleted, now, attempts, timedOut, found, panel, presses>>

\* ticket_delete up to the wait on the confirmation dialog
DeleteStart(h, actor, c) ==
    /\ CanInvoke(h, actor, c)
    /\ IF ~is_ticket_channel(c) THEN Finish(h, "not_ticket_channel")
       ELSE IF ~check_permissions(actor, c) THEN Finish(h, "no_permission")
       ELSE Suspend(h, Confirming("delete", c), {"confirm_dialog"})
    /\ UNCHANGED <<config, chan, nextId, wiz, deleted, now, attempts, timedOut, found, panel, presses>>

\* ConfirmationView.cancel_button: view.value is False
DialogCancel(h) ==
    /\ hnd[h].pc = "confirm"
    /\ Finish(h, "cancelled")
    /\ UNCHANGED <<config, chan, nextId, wiz, deleted, now, attempts, timedOut, found, panel, presses>>

\* a dialog timeout taken for a confirmation: the pending action writes the
\* Store
DialogTimeout_confirms(h) ==
    /\ hnd[h].pc = "confirm"
    /\ config' = IF hnd[h].op = "close"
                 THEN update_ticket_status(config, hnd[h].channel, "closed")
                 ELSE delete_ticket(config, hnd[h].channel)
    /\ Finish(h, "dialog_timeout")
    /\ UNCHANGED <<chan, nextId, wiz, deleted, now, attempts, timedOut, found, panel, presses>>

\* ConfirmationView times out after 60 s: view.value stays None
DialogTimeout(h) ==
    /\ hnd[h].pc = "confirm"
    /\ Finish(h, "dialog_timeout")
    /\ UNCHANGED <<config, chan, nextId, wiz, deleted, now, attempts, timedOut, found, panel, presses>>

\* ConfirmationView.confirm_button on a close dialog: the handler reads the
\* record, the owner and the transcript channel, then sends either
\* "Generating HTML transcript..." or the no-transcript-channel notice.
\* user: whether guild.get_member finds the owner (it does not when the owner
\* has left the guild or is not in the member cache)
CloseConfirm(h, user) ==
    /\ hnd[h].pc = "confirm"
    /\ hnd[h].op = "close"
    /\ LET c  == hnd[h].channel
           tc == get(config, "transcript_channel_id", None)
       IN  IF ~has_ticket(config, c) THEN Finish(h, "error")
           ELSE Suspend(h, [hnd[h] EXCEPT
                              !.user_id = get_ticket(config, c).user_id,
                              !.user = user,
                              !.transcript_channel = tc,
                              !.pc = IF tc # None THEN "generating" ELSE "no_transcript"],
                        {})
    /\ UNCHANGED <<config, chan, nextId, wiz, deleted, now, attempts, timedOut, found, panel, presses>>

\* the no-transcript branch without the status write
CloseNoTranscript_unwritten(h) ==
    /\ hnd[h].pc = "no_transcript"
    /\ IF Resolves(hnd[h].channel)
       THEN Suspend(h, [hnd[h] EXCEPT !.pc = "embed"], {"no_transcript_notice"})
       ELSE Finish(h, "error")
    /\ UNCHANGED <<config, chan, nextId, wiz, deleted, now, attempts, timedOut, found, panel, presses>>

\* the no-transcript notice is posted; the handler writes the status and sends
\* the "Ticket Closed" embed
CloseNoTranscript(h) ==
    /\ hnd[h].pc = "no_transcript"
    /\ IF Resolves(hnd[h].channel)
       THEN /\ config' = update_ticket_status(config, hnd[h].channel, "closed")
            /\ Suspend(h, [hnd[h] EXCEPT !.pc = "embed"], {"no_transcript_notice"})
       ELSE /\ config' = config
            /\ Finish(h, "error")
    /\ UNCHANGED <<chan, nextId, wiz, deleted, now, attempts, timedOut, found, panel, presses>>

\* what generate_transcript, save_transcript and the post to the transcript
\* channel leave behind in ticket_close / handle_close_button
\*   sent:        file written, posted, "transcript has been sent" notice
\*   no_file:     save_transcript returned None: nothing posted, no notice
\*                (the tag "no_file" is the logged error, not a message)
\*   failed:      generate_transcript raised: "Failed to generate transcript."
\*   post_failed: file written, the post raised: "Failed to generate transcript."
CloseTranscriptOutcomes == {"sent", "no_file", "failed", "post_failed"}

CloseTranscriptNotes(outcome) ==
    CASE outcome = "sent"        -> {"file", "posted", "sent_notice"}
      [] outcome = "no_file"     -> {"no_file"}
      [] outcome = "failed"      -> {"failed_notice"}
      [] outcome = "post_failed" -> {"file", "failed_notice"}

\* the transcript branch of close; the handler then writes the status and
\* sends the "Ticket Closed" embed
CloseTranscript(h, outcome) ==
    /\ hnd[h].pc = "generating"
    /\ IF Resolves(hnd[h].channel)
       THEN /\ config' = update_ticket_status(config, hnd[h].channel, "closed")
            /\ Suspend(h, [hnd[h] EXCEPT !.pc = "embed"], CloseTranscriptNotes(outcome))
       ELSE /\ config' = config
            /\ Finish(h, "error")
    /\ UNCHANGED <<chan, nextId, wiz, deleted, now, attempts, timedOut, found, panel, presses>>

\* the "Ticket Closed" embed is posted; with a resolved owner the handler asks
\* for the overwrite to be removed, without one it reads the channel's name
\* and asks for the rename
CloseEmbed(h) ==
    /\ hnd[h].pc = "embed"
    /\ LET c == hnd[h].channel IN
       IF ~Resolves(c) THEN Finish(h, "error")
       ELSE IF hnd[h].user
       THEN Suspend(h, [hnd[h] EXCEPT !.pc = "revoke"], {"closed_notice"})
       ELSE Suspend(h, [hnd[h] EXCEPT
                          !.pc = "rename",
                          !.new_name = [chan[c].name EXCEPT !.closed = @ + 1]],
                    {"closed_notice"})
    /\ UNCHANGED <<config, chan, nextId, wiz, deleted, now, attempts, timedOut, found, panel, presses>>

\* channel.set_permissions(user, overwrite=None) returns or raises (every
\* exception is swallowed); the handler then reads the channel's name and
\* asks for the rename
CloseRevoke(h, ok) ==
    /\ hnd[h].pc = "revoke"
    /\ LET c == hnd[h].channel IN
       IF Resolves(c)
       THEN /\ chan' = IF ok THEN [chan EXCEPT ![c].overwrites = @ \ {hnd[h].user_id}]
                       ELSE chan
            /\ Suspend(h, [hnd[h] EXCEPT
                             !.pc = "rename",
                             !.new_name = [chan[c].name EXCEPT !.closed = @ + 1]],
                       {})
       ELSE /\ chan' = chan
            /\ Finish(h, "error")
    /\ UNCHANGED <<config, nextId, wiz, deleted, now, attempts, timedOut, found, panel, presses>>

\* channel.edit(name=...) returns, or raises Forbidden (ignored), or raises
\* NotFound (reported as an error)
CloseRename(h, ok) ==
    /\ hnd[h].pc = "rename"
    /\ LET c == hnd[h].channel IN
       IF Resolves(c)
       THEN /\ chan' = IF ok THEN [chan EXCEPT ![c].name = hnd[h].new_name] ELSE chan
            /\ Finish(h, "closed")
       ELSE /\ chan' = chan
            /\ Finish(h, "error")
    /\ UNCHANGED <<config, nextId, wiz, deleted, now, attempts, timedOut, found, panel, presses>>

\* a confirmed delete that leaves the record in the Store
DeleteConfirm_keeps_record(h) ==
    /\ hnd[h].pc = "confirm"
    /\ hnd[h].op = "delete"
    /\ IF has_ticket(config, hnd[h].channel)
       THEN Suspend(h, [hnd[h] EXCEPT !.pc = "deleting"], {"deleting_notice"})
       ELSE Finish(h, "error")
    /\ deleted' = deleted \cup {hnd[h].channel}
    /\ UNCHANGED <<config, chan, nextId, wiz, now, attempts, timedOut, found, panel, presses>>

\* ConfirmationView.confirm_button on a delete dialog: the record is read and
\* removed; the owner is then messaged and the handler sleeps 3 s
DeleteConfirm(h) ==
    /\ hnd[h].pc = "confirm"
    /\ hnd[h].op = "delete"
    /\ LET c == hnd[h].channel IN
       IF has_ticket(config, c)
       THEN /\ config' = delete_ticket(config, c)
            /\ Suspend(h, [hnd[h] EXCEPT !.pc = "deleting"], {"deleting_notice"})
       ELSE /\ config' = config
            /\ Finish(h, "error")
    /\ deleted' = deleted \cup {hnd[h].channel}
    /\ UNCHANGED <<chan, nextId, wiz, now, attempts, timedOut, found, panel, presses>>

\* the channel removal whose refusal is swallowed without a message
DeleteChannel_unreported(h, ok) ==
    /\ hnd[h].pc = "deleting"
    /\ LET c == hnd[h].channel IN
       IF ~Resolves(c) THEN Finish(h, "error") /\ chan' = chan
       ELSE IF ok THEN Finish(h, "deleted") /\ chan' = DictDel(chan, c)
       ELSE hnd' = [hnd EXCEPT ![h] = IdleHandler] /\ last' = {} /\ chan' = chan
    /\ UNCHANGED <<config, nextId, wiz, deleted, now, attempts, timedOut, found, panel, presses>>

\* channel.delete(...) returns, or raises Forbidden (reported), or raises
\* NotFound because the channel is already gone (reported as an error)
DeleteChannel(h, ok) ==
    /\ hnd[h].pc = "deleting"
    /\ LET c == hnd[h].channel IN
       IF ~Resolves(c) THEN Finish(h, "error") /\ chan' = chan
       ELSE IF ok THEN Finish(h, "deleted") /\ chan' = DictDel(chan, c)
       ELSE Finish(h, "cannot_delete_channel") /\ chan' = chan
    /\ UNCHANGED <<config, nextId, wiz, deleted, now, attempts, timedOut, found, panel, presses>>

\* generate_transcript_command and handle_transcript_button (the same steps)
\* up to the call of generate_transcript
TranscriptStart(h, actor, c) ==
    /\ CanInvoke(h, actor, c)
    /\ IF ~is_ticket_channel(c) THEN Finish(h, "not_ticket_channel")
       ELSE IF ~check_permissions(actor, c) THEN Finish(h, "no_permission")
       ELSE IF get(config, "transcript_channel_id", None) = None
            THEN Finish(h, "no_transcript_channel")
       ELSE Suspend(h, [Confirming("transcript", c) EXCEPT !.pc = "transcribing"],
                    {"generating_notice"})
    /\ UNCHANGED <<config, chan, nextId, wiz, deleted, now, attempts, timedOut, found, panel, presses>>

\* what generate_transcript, save_transcript and the post leave behind in the
\* transcript command / button
\*   sent:    file written, posted, "transcript has been sent"
\*   no_file: save_transcript returned None: "Failed to generate transcript.
\*            Please try again."
\*   failed:  an exception: "Error generating transcript: ..."
TranscriptOutcomes == {"sent", "no_file", "failed"}

TranscriptNotes(outcome) ==
    CASE outcome = "sent"    -> {"file", "posted", "sent_notice"}
      [] outcome = "no_file" -> {"no_file", "failed_notice"}
      [] outcome = "failed"  -> {"error_notice"}

TranscriptGenerate(h, outcome) ==
    /\ hnd[h].pc = "transcribing"
    /\ hnd' = [hnd EXCEPT ![h] = IdleHandler]
    /\ last' = IF Resolves(hnd[h].channel) THEN TranscriptNotes(outcome) ELSE {"error"}
    /\ UNCHANGED <<config, chan, nextId, wiz, deleted, now, attempts, timedOut, found, panel, presses>>

\* --------------------------------------------------------------- settings
IsAdmin(actor) == actor \in Admins

Remove(s, x) == SelectSeq(s, LAMBDA y : y # x)

set_staff(actor, role) ==
    /\ IsAdmin(actor)
    /\ LET staff_role_ids == get(config, "staff_role_ids", <<>>) IN
       config' = IF role \in Range(staff_role_ids) THEN config
                 ELSE set(config, "staff_role_ids", Append(staff_role_ids, role))
    /\ last' = {}
    /\ UNCHANGED <<chan, nextId, wiz, hnd, deleted, now, attempts, timedOut, found, panel, presses>>

remove_staff(actor, role) ==
    /\ IsAdmin(actor)
    /\ LET staff_role_ids == get(config, "staff_role_ids", <<>>) IN
       config' = IF role \notin Range(staff_role_ids) THEN config
                 ELSE set(config, "staff_role_ids", Remove(staff_role_ids, role))
    /\ last' = {}
    /\ UNCHANGED <<chan, nextId, wiz, hnd, deleted, now, attempts, timedOut, found, panel, presses>>

\* /set_transcript_channel, and the settings panel's channel select (which
\* can also choose "None")
set_transcript_channel(actor, channel_id) ==
    /\ IsAdmin(actor)
    /\ config' = set(config, "transcript_channel_id", channel_id)
    /\ last' = {}
    /\ UNCHANGED <<chan, nextId, wiz, hnd, deleted, now, attempts, timedOut, found, panel, presses>>

\* ------------------------------------------------------------- environment
\* a ticket channel is removed in the guild by someone other than the bot
ChannelRemoved(c) ==
    /\ Resolves(c)
    /\ chan' = DictDel(chan, c)
    /\ last' = {}
    /\ UNCHANGED <<config, nextId, wiz, hnd, deleted, now, attempts, timedOut, found, panel, presses>>

ManagementStep ==
    \E h \in Handlers :
        \/ \E actor \in Users, c \in DOMAIN chan, target \in Targets :
              \/ ticket_add(h, actor, c, target)
              \/ ticket_remove(h, actor, c, target)
        \/ \E actor \in Users, c \in DOMAIN chan :
              \/ CloseStart(h, actor, c)
              \/ DeleteStart(h, actor, c)
              \/ TranscriptStart(h, actor, c)
        \/ DialogCancel(h)
        \/ DialogTimeout(h)
        \/ \E user \in BOOLEAN : CloseConfirm(h, user)
        \/ CloseNoTranscript(h)
        \/ \E outcome \in CloseTranscriptOutcomes : CloseTranscript(h, outcome)
        \/ CloseEmbed(h)
        \/ \E ok \in BOOLEAN : CloseRevoke(h, ok)
        \/ \E ok \in BOOLEAN : CloseRename(h, ok)
        \/ DeleteConfirm(h)
        \/ \E ok \in BOOLEAN : DeleteChannel(h, ok)
        \/ \E outcome \in TranscriptOutcomes : TranscriptGenerate(h, outcome)

SettingsStep ==
    \E actor \in Users :
        \/ \E role \in Roles : set_staff(actor, role)
        \/ \E role \in Roles : remove_staff(actor, role)
        \/ \E v \in {None, TranscriptChannel} : set_transcript_channel(actor, v)

EnvironmentStep ==
    \E c \in DOMAIN chan : ChannelRemoved(c)

\* one ticket's life: one wizard run at a time, two management handlers,
\* the settings commands and the guild
Next ==
    \/ WizardStep({"w1"}, {1}, MaxChannels)
    \/ ManagementStep
    \/ SettingsStep
    \/ EnvironmentStep

Spec == Init /\ [][Next]_vars

\* concurrent wizard runs, with channels removed in the guild
RaceNext ==
    \/ WizardStep(Wizards, {1, 2}, MaxRaceChannels)
    \/ EnvironmentStep

RaceSpec == Init /\ [][RaceNext]_vars

\* the steps of run w after its start
WizardProgress(w, cap) ==
    \/ nextId <= cap /\ CreateChannelOk(w)
    \/ CreateChannelFail(w)
    \/ \E c \in Countries : CountryPick(w, c)
    \/ CountryTimeout(w)
    \/ GroupLinkYes(w)
    \/ GroupLinkNo(w)
    \/ \E b \in BOOLEAN : GroupLinkTimeout(w, b)
    \/ \E l \in Links : LinkMessage(w, l)
    \/ LinkTimeout(w)
    \/ \E p \in PaymentMethods : PaymentSelect(w, p)
    \/ PaymentTimeout(w)
    \/ Finalize(w)

\* no run is between its read of the counter and the end of
\* create_ticket_channel
NoneCreating == \A w \in Wizards : wiz[w].pc # "creating"

\* wizard runs whose create_ticket_channel calls do not overlap: a run starts
\* only when no other run is inside create_ticket_channel
SerialNext ==
    \/ \E w \in Wizards :
          \/ NoneCreating /\ \E u \in {1, 2} : StartFlow(w, u)
          \/ WizardProgress(w, MaxSerialChannels)
    \/ EnvironmentStep

SerialSpec == Init /\ [][SerialNext]_vars

\* time passes
Tick ==
    /\ now < MaxClock
    /\ now' = now + TickSeconds
    /\ last' = {}
    /\ UNCHANGED <<config, chan, nextId, wiz, hnd, deleted, attempts, timedOut, found, panel, presses>>

\* one member pressing the create button again and again as time passes
TimedNext ==
    \/ WizardStep(Wizards, {1}, MaxRaceChannels)
    \/ Tick

TimedSpec == Init /\ [][TimedNext]_vars

\* three or more wizard runs of one member, interleaved
CounterNext == WizardStep(Wizards, {1}, MaxCounterChannels)

CounterSpec == Init /\ [][CounterNext]_vars

\* the steps of the handlers that write a record's status, remove a record or
\* remove a channel: close (no transcript channel is configured) and delete,
\* with their dialogs
LifecycleStep ==
    \E h \in Handlers :
        \/ \E actor \in Users, c \in DOMAIN chan :
              \/ CloseStart(h, actor, c)
              \/ DeleteStart(h, actor, c)
        \/ DialogCancel(h)
        \/ DialogTimeout(h)
        \/ \E user \in BOOLEAN : CloseConfirm(h, user)
        \/ CloseNoTranscript(h)
        \/ CloseEmbed(h)
        \/ \E ok \in BOOLEAN : CloseRevoke(h, ok)
        \/ \E ok \in BOOLEAN : CloseRename(h, ok)
        \/ DeleteConfirm(h)
        \/ \E ok \in BOOLEAN : DeleteChannel(h, ok)

\* tickets created one after the other, closed and deleted, in a guild where
\* nobody but the bot removes a channel
OwnNext ==
    \/ WizardStep({"w1"}, {1}, MaxRaceChannels)
    \/ LifecycleStep

OwnSpec == Init /\ [][OwnNext]_vars

\* the members who can see channel c and use the components posted in it:
\* those with a member overwrite (the owner, added participants) and the
\* administrators, whom no overwrite keeps out
CanSee(actor, c) ==
    /\ Resolves(c)
    /\ actor \in chan[c].overwrites \cup Admins

\* An answer to run w supplied by member actor. The wizard's views define no
\* interaction_check, so the library runs a button's or the select's callback
\* for whoever uses the component; wait_for_message takes a message only from
\* the run's user in the run's channel.
WizardInput(w, actor) ==
    \/ /\ CanSee(actor, wiz[w].ticket_channel)
       /\ \/ \E c \in Countries : CountryPick(w, c)
          \/ GroupLinkYes(w)
          \/ GroupLinkNo(w)
          \/ \E p \in PaymentMethods : PaymentSelect(w, p)
    \/ /\ actor = wiz[w].user
       /\ \E l \in Links : LinkMessage(w, l)

\* concurrent wizard runs whose answers come from the members of the guild
InputNext ==
    \E w \in Wizards :
        \/ \E u \in {1, 2} : StartFlow(w, u)
        \/ nextId <= MaxRaceChannels /\ CreateChannelOk(w)
        \/ CreateChannelFail(w)
        \/ \E actor \in Users : WizardInput(w, actor)
        \/ CountryTimeout(w)
        \/ \E b \in BOOLEAN : GroupLinkTimeout(w, b)
        \/ LinkTimeout(w)
        \/ PaymentTimeout(w)
        \/ Finalize(w)

InputSpec == Init /\ [][InputNext]_vars

\* the timers and the platform as the library and the event loop run them: a
\* pending platform call returns, and the timeout of a wait fires if the wait
\* lasts
WizardFairness(w) ==
    /\ WF_vars((nextId <= MaxRaceChannels /\ CreateChannelOk(w)) \/ CreateChannelFail(w))
    /\ WF_vars(CountryTimeout(w))
    /\ WF_vars(\E b \in BOOLEAN : GroupLinkTimeout(w, b))
    /\ WF_vars(LinkTimeout(w))
    /\ WF_vars(PaymentTimeout(w))
    /\ WF_vars(Finalize(w))

LiveSpec == RaceSpec /\ \A w \in Wizards : WizardFairness(w)

\* ------------------------------------------------- the Store called directly
\* Config's ticket methods applied to arguments of every shape: channel ids of
\* one and two digits, and data dicts that lack keys or carry extra ones
StoreIds   == {1, 2, 10}
StoreUsers == {1, 2}
StoreData  ==
    { <<>>,
      ("country" :> "US") @@ ("group_link" :> NoLink) @@ ("payment_method" :> "PayPal")
         @@ ("created_at" :> Now),
      ("country" :> "Canada") @@ ("has_group_link" :> "yes") @@ ("status" :> "closed")
         @@ ("user_id" :> "x") }

StoreAdd(id, u, d) ==
    /\ config' = add_ticket(config, id, u, d)
    /\ last' = {"add_ticket"}
    /\ UNCHANGED <<chan, nextId, wiz, hnd, deleted, now, attempts, timedOut, found, panel, presses>>

StoreUpdate(id, status) ==
    /\ config' = update_ticket_status(config, id, status)
    /\ last' = {"update_ticket_status"}
    /\ UNCHANGED <<chan, nextId, wiz, hnd, deleted, now, attempts, timedOut, found, panel, presses>>

StoreDelete(id) ==
    /\ config' = delete_ticket(config, id)
    /\ last' = {"delete_ticket"}
    /\ UNCHANGED <<chan, nextId, wiz, hnd, deleted, now, attempts, timedOut, found, panel, presses>>

StoreNext ==
    \/ \E id \in StoreIds, u \in StoreUsers, d \in StoreData : StoreAdd(id, u, d)
    \/ \E id \in StoreIds, status \in {"open", "closed"} : StoreUpdate(id, status)
    \/ \E id \in StoreIds : StoreDelete(id)

StoreSpec == Init /\ [][StoreNext]_vars

\* -------------------------------------------------------- transcript search
\* An argument that was not supplied. search_transcripts only tests its
\* arguments for truth, which None and "" both fail.
Absent == ""

\* Optional values computed inside search_transcripts: None is the empty
\* tuple, a datetime is <<day, second of the day>>
NoDate == <<>>

\* A file name is the sequence of its parts between the underscores and its
\* extension: transcript_5_20240102_000000.txt is
\* [parts |-> <<"transcript", "5", "20240102", "000000">>, ext |-> "txt"]
FileName(parts, ext) == [parts |-> parts, ext |-> ext]

FileNames ==
    { FileName(<<"transcript", "5", "20240101", "235959">>, "txt"),
      FileName(<<"transcript", "5", "20240102", "000000">>, "txt"),
      FileName(<<"transcript", "5", "20240102", "235959">>, "txt"),
      FileName(<<"transcript", "6", "20240103", "000000">>, "txt"),
      FileName(<<"transcript", "7", "20240102", "120000">>, "html"),
      FileName(<<"transcript", "8", "20240102", "120000">>, "json"),
      FileName(<<"notes", "old">>, "txt"),
      FileName(<<"readme">>, "txt") }

\* what a file holds: the words of its text and the names that speak in it
Contents ==
    { [words |-> {"refund"}, speakers |-> {"alice"}],
      [words |-> {},         speakers |-> {}] }

Files == [name : FileNames, content : Contents]

\* os.listdir: directory listings of at most n files, no name twice, in the
\* order the file system returns them
RECURSIVE Listings(_)
Listings(n) ==
    IF n = 0 THEN {<<>>}
    ELSE LET shorter == Listings(n - 1) IN
         shorter \cup
         { Append(l, f) : l \in {s \in shorter : Len(s) = n - 1},
                          f \in Files } 

DistinctNames(l) ==
    \A i, j \in DOMAIN l : i # j => l[i].name # l[j].name

\* strptime(s, "%Y%m%d") on the date part of a name: the day, counted from
\* 2024-01-01 as day 1, or 0 for ValueError
ParseDay(s) ==
    CASE s = "20240101" -> 1
      [] s = "20240102" -> 2
      [] s = "20240103" -> 3
      [] OTHER          -> 0

\* strptime(s, "%H%M%S") on the time part of a name: the second of the day,
\* or -1 for ValueError
ParseClock(s) ==
    CASE s = "000000" -> 0
      [] s = "120000" -> 43200
      [] s = "235959" -> 86399
      [] OTHER        -> -1

\* strptime(date_part, "%Y%m%d_%H%M%S") for
\* date_part = name.split('_')[-2] + '_' + name.split('_')[-1].split('.')[0];
\* NoDate when the name has no underscore or strptime raises ValueError
FileDate(name) ==
    LET n == Len(name.parts) IN
    IF n < 2 THEN NoDate
    ELSE LET day   == ParseDay(name.parts[n - 1])
             clock == ParseClock(name.parts[n])
         IN  IF day = 0 \/ clock = -1 THEN NoDate ELSE <<day, clock>>

\* strptime(s, "%Y-%m-%d") on a date argument: midnight of the day, or NoDate
\* for ValueError
ParseDateArg(s) ==
    CASE s = "2024-01-01" -> <<1, 0>>
      [] s = "2024-01-02" -> <<2, 0>>
      [] s = "2024-01-03" -> <<3, 0>>
      [] OTHER            -> NoDate

\* datetime comparison
Before(a, b) == a[1] < b[1] \/ (a[1] = b[1] /\ a[2] < b[2])

\* from_date / to_date as search_transcripts computes them
FromDate(date_from) ==
    IF date_from = Absent THEN NoDate ELSE ParseDateArg(date_from)

ToDate(date_to) ==
    IF date_to = Absent \/ ParseDateArg(date_to) = NoDate THEN NoDate
    ELSE <<ParseDateArg(date_to)[1], 86399>>

\* the "continue" of the date filter: taken only for a name that yields a date
DateExcludes(name, date_from, date_to) ==
    LET file_date == FileDate(name)
        from_date == FromDate(date_from)
        to_date   == ToDate(date_to)
    IN  /\ file_date # NoDate
        /\ \/ from_date # NoDate /\ Before(file_date, from_date)
           \/ to_date # NoDate /\ Before(to_date, file_date)

\* the "continue"s after the file was read: HTML files without a query, the
\* text filter, and the user filter (applied to .txt files only)
ContentExcludes(f, query, user) ==
    \/ f.name.ext = "html" /\ query = Absent
    \/ query # Absent /\ query \notin f.content.words
    \/ user # Absent /\ f.name.ext = "txt" /\ user \notin f.content.speakers

\* the dict appended to results; file_date.strftime("%Y-%m-%d %H:%M:%S")
\* orders as the datetime does, so "date" keeps <<day, second>>, and NoDate
\* stands for None
ResultOf(f) ==
    [ filename   |-> f.name,
      date       |-> FileDate(f.name),
      channel_id |-> IF Len(f.name.parts) >= 2 THEN f.name.parts[2] ELSE Absent ]

\* the loop over the listing from file i on, with the results so far
RECURSIVE Scan(_, _, _, _, _, _, _, _)
Scan(files, i, results, query, user, date_from, date_to, limit) ==
    IF i > Len(files) THEN results
    ELSE LET f == files[i] IN
         IF \/ f.name.ext \notin {"txt", "html"}
            \/ DateExcludes(f.name, date_from, date_to)
            \/ ContentExcludes(f, query, user)
         THEN Scan(files, i + 1, results, query, user, date_from, date_to, limit)
         ELSE LET more == Append(results, ResultOf(f)) IN
              IF Len(more) >= limit THEN more
              ELSE Scan(files, i + 1, more, query, user, date_from, date_to, limit)

\* results.sort(key=lambda x: x.get("date", ""), reverse=True) raises
\* TypeError when it compares a None date with anything; every element of a
\* list of two or more is compared at least once
SortRaises(results) ==
    Len(results) >= 2 /\ \E i \in DOMAIN results : results[i].date = NoDate

\* x goes behind every element whose date is not before x's: newest first,
\* equal dates in their original order
SortedInsert(acc, x) ==
    LET k == Cardinality({i \in DOMAIN acc : ~Before(acc[i].date, x.date)})
    IN  SubSeq(acc, 1, k) \o <<x>> \o SubSeq(acc, k + 1, Len(acc))

RECURSIVE SortNewestFirst(_)
SortNewestFirst(results) ==
    IF Len(results) <= 1 THEN results
    ELSE SortedInsert(SortNewestFirst(SubSeq(results, 1, Len(results) - 1)),
                      results[Len(results)])

\* a search whose to_date is midnight of the day
search_transcripts_midnight(files, query, user, date_from, date_to, limit) ==
    LET kept    == SelectSeq(files, LAMBDA f :
                      ~(/\ FileDate(f.name) # NoDate
                        /\ ToDate(date_to) # NoDate
                        /\ Before(<<ToDate(date_to)[1], 0>>, FileDate(f.name))))
        results == Scan(kept, 1, <<>>, query, user, date_from, date_to, limit)
    IN  IF SortRaises(results) THEN <<>>
        ELSE SubSeq(SortNewestFirst(results), 1,
                    IF Len(results) < limit THEN Len(results) ELSE limit)

\* search_transcripts over the listing files of an existing directory; the
\* TypeError of the sort is caught by the outer except, which returns []
search_transcripts(files, query, user, date_from, date_to, limit) ==
    LET results == Scan(files, 1, <<>>, query, user, date_from, date_to, limit)
    IN  IF SortRaises(results) THEN <<>>
        ELSE SubSeq(SortNewestFirst(results), 1,
                    IF Len(results) < limit THEN Len(results) ELSE limit)

\* the arguments the search is called with
Queries    == {Absent, "refund"}
Speakers   == {Absent, "alice"}
DateArgs   == {Absent, "2024-01-01", "2024-01-02", "yesterday"}
\* limit=50 is what search_transcripts_command passes
CommandLimit == 50
SearchLimits == {1, CommandLimit}

\* search_transcripts is called on what the directory holds
SearchCall(files, query, user, date_from, date_to, limit) ==
    /\ found = NoSearch
    /\ found' = [ called    |-> TRUE,
                  files     |-> files,
                  query     |-> query,
                  user      |-> user,
                  date_from |-> date_from,
                  date_to   |-> date_to,
                  limit     |-> limit,
                  results   |-> search_transcripts(files, query, user,
                                                   date_from, date_to, limit) ]
    /\ last' = {"search_results"}
    /\ UNCHANGED <<config, chan, nextId, wiz, hnd, deleted, now, attempts, timedOut, panel, presses>>

\* the caller is done with the results
SearchReturn ==
    /\ found # NoSearch
    /\ found' = NoSearch
    /\ last' = {}
    /\ UNCHANGED <<config, chan, nextId, wiz, hnd, deleted, now, attempts, timedOut, panel, presses>>

\* one call at a time: the function is synchronous
SearchNext ==
    \/ /\ found = NoSearch
       /\ \E files \in {l \in Listings(MaxFiles) : DistinctNames(l)},
             query \in Queries, user \in Speakers,
             date_from \in DateArgs, date_to \in DateArgs, limit \in SearchLimits :
                SearchCall(files, query, user, date_from, date_to, limit)
    \/ SearchReturn

SearchSpec == Init /\ [][SearchNext]_vars

\* ------------------------------------------------- the cooldown settings page
\* the changes the four buttons of CooldownView ask for
CooldownSteps == {-10, -5, 5, 10}

Max0(n) == IF n < 0 THEN 0 ELSE n

\* StaffCategoryView.cooldown_button -> show_cooldown_settings: the panel's
\* message gets a new CooldownView, whose __init__ reads the setting
ShowCooldown(p) ==
    /\ ~panel[p].open
    /\ panel' = [panel EXCEPT ![p] = [open |-> TRUE,
                                      cooldown |-> get(config, "ticket_cooldown", 30)]]
    /\ last' = {}
    /\ UNCHANGED <<config, chan, nextId, wiz, hnd, deleted, now, attempts, timedOut,
                   found, presses>>

\* CooldownView.back_button: the panel shows the staff page again
CooldownBack(p) ==
    /\ panel[p].open
    /\ panel' = [panel EXCEPT ![p] = NoView]
    /\ last' = {}
    /\ UNCHANGED <<config, chan, nextId, wiz, hnd, deleted, now, attempts, timedOut,
                   found, presses>>

\* a cooldown button that computes the new value from the stored setting
CooldownPress_rereads(p, d) ==
    /\ panel[p].open
    /\ LET cooldown == IF d < 0 THEN Max0(get(config, "ticket_cooldown", 30) + d)
                       ELSE get(config, "ticket_cooldown", 30) + d
       IN  /\ config' = save(set(config, "ticket_cooldown", cooldown))
           /\ panel' = [panel EXCEPT ![p].cooldown = cooldown]
    /\ presses' = Append(presses, d)
    /\ last' = {}
    /\ UNCHANGED <<chan, nextId, wiz, hnd, deleted, now, attempts, timedOut, found>>

\* decrease10_button, decrease5_button, increase5_button, increase10_button:
\* the new value is computed from the view's own cooldown (max(0, ...) for a
\* decrease), written with config.set and saved again; show_cooldown_settings
\* then gives the panel a new CooldownView, which reads the setting back
CooldownPress(p, d) ==
    /\ panel[p].open
    /\ LET cooldown == IF d < 0 THEN Max0(panel[p].cooldown + d)
                       ELSE panel[p].cooldown + d
       IN  /\ config' = save(set(config, "ticket_cooldown", cooldown))
           /\ panel' = [panel EXCEPT ![p].cooldown = cooldown]
    /\ presses' = Append(presses, d)
    /\ last' = {}
    /\ UNCHANGED <<chan, nextId, wiz, hnd, deleted, now, attempts, timedOut, found>>

\* settings panels used side by side with the settings commands
PanelNext ==
    \/ \E p \in Panels :
          \/ ShowCooldown(p)
          \/ CooldownBack(p)
          \/ Len(presses) < MaxPresses /\ \E d \in CooldownSteps : CooldownPress(p, d)
    \/ SettingsStep

PanelSpec == Init /\ [][PanelNext]_vars

\* =================================================================== claims
\* the open records a user owns
OpenTicketsOf(u) ==
    {k \in DOMAIN Tickets : Tickets[k].user_id = u /\ Tickets[k].status = "open"}

\* the authorization rule as the specification words it: an administrator, a
\* holder of a configured staff role, or the owner of the ticket of channel c
Authorized(actor, c) ==
    \/ actor \in Admins
    \/ RolesOf(actor) \cap Range(get(config, "staff_role_ids", <<>>)) # {}
    \/ has_ticket(config, c) /\ get_ticket(config, c).user_id = actor

ClosedTicket(c) == has_ticket(config, c) /\ get_ticket(config, c).status = "closed"

\* C1 (as the specification states it): in every reachable state each user
\* owns at most one ticket record whose status is "open".
C1_OneOpenTicketPerUser ==
    \A u \in Users : Cardinality(OpenTicketsOf(u)) <= 1

\* C2 (as the specification states it): whenever start_flow is invoked by a
\* user who owns an open record, also one whose channel no longer resolves,
\* the flow returns at the entry guard and nothing is changed.
C2_GuardStopsOwner ==
    [][\A w \in Wizards, u \in Users :
          (OpenTicketsOf(u) # {} /\ StartFlow(w, u))
             => (wiz'[w].pc = "idle" /\ last' = {"already_open"})]_vars

\* C3: once a record's status is "closed", a step leaves the record as it is
\* or removes it; a record is removed only by a confirmed delete, and no
\* record is ever added for a channel whose delete was confirmed, so a closed
\* ticket is never open in a later state.
C3_ClosedNeverReopens ==
    [][/\ \A k \in DOMAIN Tickets :
             Tickets[k].status = "closed"
                => (k \notin DOMAIN Tickets' \/ Tickets'[k] = Tickets[k])
       /\ \A k \in (DOMAIN Tickets) \ (DOMAIN Tickets') : int(k) \in deleted'
       /\ \A k \in (DOMAIN Tickets') \ (DOMAIN Tickets) : int(k) \notin deleted]_vars

\* a closed ticket on which a participant was just removed
C3_Witness ==
    /\ last = {"removed"}
    /\ \E c \in DOMAIN chan : ClosedTicket(c)

\* C4 (amended): close invoked on a closed ticket shows no dialog and changes
\* neither the Store nor the channel; an actor who passes the authorization
\* check is told the ticket is already closed, any other actor is told they
\* lack permission.
C4_CloseOnClosed ==
    [][\A c \in DOMAIN chan : ClosedTicket(c) =>
          (\A h \in Handlers : hnd[h].pc = "idle" =>
             (\A actor \in Users : CloseStart(h, actor, c) =>
                (/\ UNCHANGED <<config, chan>>
                 /\ hnd'[h] = IdleHandler
                 /\ last' = IF Authorized(actor, c) THEN {"already_closed"}
                            ELSE {"no_permission"})))]_vars

\* C4 (as the specification states it): close invoked on a closed ticket
\* reports that the ticket is already closed and changes nothing.
C4_AlwaysReportsClosed ==
    [][\A c \in DOMAIN chan : ClosedTicket(c) =>
          (\A h \in Handlers : hnd[h].pc = "idle" =>
             (\A actor \in Users : CloseStart(h, actor, c) =>
                (/\ UNCHANGED <<config, chan>>
                 /\ hnd'[h] = IdleHandler
                 /\ last' = {"already_closed"})))]_vars

\* a close was just answered with "already closed"
C4_Witness ==
    /\ last = {"already_closed"}
    /\ \E c \in DOMAIN chan : ClosedTicket(c)

\* the step is one of handler h, which runs a confirmed close that found no
\* transcript channel
ClosingWithoutTranscript(h) ==
    /\ hnd[h].op = "close"
    /\ hnd[h].pc \in {"no_transcript", "embed", "revoke", "rename"}
    /\ hnd[h].transcript_channel = None
    /\ hnd'[h] # hnd[h]

\* C5 (amended): in a confirmed close that finds no transcript channel, no
\* step produces or posts a transcript file; the step that posts the
\* no-transcript notice writes status "closed" into the record (if it still
\* exists); the owner's overwrite is gone once the platform has accepted the
\* permission change, which is only asked for an owner who is still a
\* member; and the name carries "-closed" once the platform has accepted the
\* rename. A refused permission change or rename is ignored.
C5_CloseWithoutTranscript ==
    [][\A h \in Handlers :
          ClosingWithoutTranscript(h) =>
             LET c == hnd[h].channel IN
             /\ "file" \notin last' /\ "posted" \notin last'
             /\ (CloseNoTranscript(h) /\ Resolves(c))
                   => /\ last' = {"no_transcript_notice"}
                      /\ has_ticket(config, c)
                            => /\ has_ticket(config', c)
                               /\ get_ticket(config', c).status = "closed"
             /\ (CloseRevoke(h, TRUE) /\ Resolves(c))
                   => hnd[h].user_id \notin chan'[c].overwrites
             /\ (CloseRename(h, TRUE) /\ Resolves(c))
                   => /\ last' = {"closed"}
                      /\ chan'[c].name.number = chan[c].name.number
                      /\ chan'[c].name.closed >= 1]_vars

\* C5 (as the specification states it): when such a close has finished, the
\* record's status is "closed", the name is extended by "-closed" and the
\* owner's overwrite is removed.
C5_ClosedRenamedRevoked ==
    [][\A h \in Handlers :
          (ClosingWithoutTranscript(h) /\ hnd[h].pc = "rename" /\ last' = {"closed"})
             => LET c == hnd[h].channel IN
                /\ ClosedTicket(c)'
                /\ chan'[c].name.closed = chan[c].name.closed + 1
                /\ hnd[h].user_id \notin chan'[c].overwrites]_vars

\* a close without transcript channel has written the status and removed the
\* owner's overwrite, and waits for the rename
C5_Witness ==
    \E h \in Handlers :
        /\ hnd[h].op = "close" /\ hnd[h].pc = "rename"
        /\ hnd[h].transcript_channel = None
        /\ hnd[h].user
        /\ Resolves(hnd[h].channel)
        /\ ClosedTicket(hnd[h].channel)
        /\ hnd[h].user_id \notin chan[hnd[h].channel].overwrites

\* C6: close, delete, add-participant, remove-participant and transcript
\* generation invoked in a ticket channel by an actor who is no administrator,
\* holds no configured staff role and is not the owner are answered with the
\* permission refusal; the Store, the overwrites, the name and the existence
\* of the channel are unchanged and no dialog is shown.
C6_UnauthorizedRefused ==
    [][\A c \in DOMAIN chan : has_ticket(config, c) =>
          (\A h \in Handlers : hnd[h].pc = "idle" =>
             (\A actor \in Users : ~Authorized(actor, c) =>
                ((\/ CloseStart(h, actor, c)
                  \/ DeleteStart(h, actor, c)
                  \/ TranscriptStart(h, actor, c)
                  \/ \E target \in Targets :
                        \/ ticket_add(h, actor, c, target)
                        \/ ticket_remove(h, actor, c, target))
                    => (/\ last' = {"no_permission"}
                        /\ UNCHANGED <<config, chan>>
                        /\ hnd'[h] = IdleHandler))))]_vars

\* an operation on an existing ticket was just refused for lack of permission
C6_Witness ==
    /\ last = {"no_permission"}
    /\ \E c \in DOMAIN chan : has_ticket(config, c)

\* C7: once a delete is confirmed the record is absent in every later state;
\* when the platform then refuses to remove the channel, the channel still
\* exists, has no record, and the refusal is reported.
C7_DeletedStaysDeleted ==
    [][/\ \A c \in deleted' : ~has_ticket(config', c)
       /\ \A h \in Handlers :
             (Resolves(hnd[h].channel) /\ DeleteChannel(h, FALSE))
                => /\ hnd[h].channel \in DOMAIN chan'
                   /\ ~has_ticket(config', hnd[h].channel)
                   /\ last' = {"cannot_delete_channel"}]_vars

\* the platform refused to remove the channel of a deleted ticket
C7_Witness ==
    /\ last = {"cannot_delete_channel"}
    /\ \E c \in deleted : Resolves(c) /\ ~has_ticket(config, c)

\* C8: remove-participant aimed at the ticket's owner changes no overwrite,
\* whoever asks: an actor who passes the authorization check is told the
\* creator cannot be removed, any other actor is refused for lack of
\* permission.
C8_OwnerNeverRemoved ==
    [][\A c \in DOMAIN chan : has_ticket(config, c) =>
          (\A h \in Handlers : hnd[h].pc = "idle" =>
             (\A actor \in Users :
                ticket_remove(h, actor, c, get_ticket(config, c).user_id) =>
                   (/\ chan' = chan
                    /\ config' = config
                    /\ last' = IF Authorized(actor, c) THEN {"cannot_remove_creator"}
                               ELSE {"no_permission"})))]_vars

\* the removal of an owner who holds an overwrite was just refused
C8_Witness ==
    /\ last = {"cannot_remove_creator"}
    /\ \E c \in DOMAIN chan :
          has_ticket(config, c) /\ get_ticket(config, c).user_id \in chan[c].overwrites

\* the records of the Store value c other than the one of channel id
OtherTickets(c, id) ==
    [k \in (DOMAIN get(c, "tickets", <<>>)) \ {str(id)} |-> get(c, "tickets", <<>>)[k]]

\* C9: on every reachable Store and for every id, user and data, get_ticket
\* after add_ticket returns the user, status "open" and the country,
\* group_link and payment_method of data ("" for a key data lacks); a
\* following update_ticket_status(id, "closed") changes the status of that
\* record and nothing else, in that record or in any other.
C9_RoundTrip ==
    \A id \in StoreIds, u \in StoreUsers, d \in StoreData :
        LET added  == add_ticket(config, id, u, d)
            r      == get_ticket(added, id)
            closed == update_ticket_status(added, id, "closed")
        IN  /\ has_ticket(added, id)
            /\ r.user_id = u
            /\ r.status = "open"
            /\ \A key \in {"country", "group_link", "payment_method"} :
                  r[key] = IF key \in DOMAIN d THEN d[key] ELSE ""
            /\ OtherTickets(added, id) = OtherTickets(config, id)
            /\ get_ticket(closed, id) = [r EXCEPT !.status = "closed"]
            /\ OtherTickets(closed, id) = OtherTickets(added, id)
            /\ has_ticket(config, id)
                  => /\ get_ticket(update_ticket_status(config, id, "closed"), id)
                          = [get_ticket(config, id) EXCEPT !.status = "closed"]
                     /\ OtherTickets(update_ticket_status(config, id, "closed"), id)
                          = OtherTickets(config, id)

\* a record was just closed beside an open one added from data without keys
C9_Witness ==
    /\ last = {"update_ticket_status"}
    /\ \E a \in StoreIds, b \in StoreIds :
          /\ a # b
          /\ has_ticket(config, a) /\ get_ticket(config, a).status = "closed"
          /\ has_ticket(config, b) /\ get_ticket(config, b).status = "open"
          /\ get_ticket(config, b).country = ""

\* C10: in every state (every handler is at a suspension point, no Store
\* method is running) the document in the file equals the one in memory.
C10_FileEqualsMemory == config.file = config.data

\* set, add_ticket and update_ticket_status have all written
C10_Witness ==
    /\ get(config, "staff_role_ids", <<>>) # <<>>
    /\ get(config, "latest_ticket_number", 0) > 0
    /\ \E c \in DOMAIN chan : ClosedTicket(c)

\* run w writes its record in this step
Completes(w) == Finalize(w) /\ last' = {"created"}

\* C11: the choices of a run are kept as made (the country picked, "No link
\* provided" for a declined group link, the payment method selected); when a
\* run that declined the group link completes, the ticket table gains exactly
\* one record, under the id of the channel created for the run, with the
\* invoking user, status "open" and those three values, and every other
\* record is as before; no other step of a run adds or changes a record.
C11_WizardAddsOneRecord ==
    [][\A w \in Wizards :
          LET d  == wiz[w].data
              c  == wiz[w].ticket_channel
              T  == get(config, "tickets", <<>>)
              Tp == get(config', "tickets", <<>>)
          IN  /\ \A x \in Countries : CountryPick(w, x) => wiz'[w].data.country = x
              /\ GroupLinkNo(w) => /\ wiz'[w].data.group_link = NoLink
                                   /\ wiz'[w].data.country = d.country
              /\ \A p \in PaymentMethods :
                   (PaymentSelect(w, p) /\ wiz'[w].pc = "finalizing")
                      => /\ wiz'[w].data.payment_method = p
                         /\ wiz'[w].data.country = d.country
                         /\ wiz'[w].data.group_link = d.group_link
              /\ (wiz[w].pc = "finalizing" /\ d.has_group_link = FALSE /\ Completes(w))
                   => /\ str(c) \notin DOMAIN T
                      /\ DOMAIN Tp = DOMAIN T \cup {str(c)}
                      /\ \A k \in DOMAIN T : Tp[k] = T[k]
                      /\ Tp[str(c)].user_id = wiz[w].user
                      /\ Tp[str(c)].status = "open"
                      /\ Tp[str(c)].country = d.country
                      /\ Tp[str(c)].group_link = NoLink
                      /\ Tp[str(c)].payment_method = d.payment_method
              /\ (wiz[w] # wiz'[w] /\ ~Completes(w)) => Tp = T ]_vars

\* a run that declined the group link has just added its record beside the
\* record of an earlier run
C11_Witness ==
    /\ last = {"created"}
    /\ Cardinality(DOMAIN Tickets) = 2
    /\ \E k \in DOMAIN Tickets :
          /\ int(k) = nextId - 1
          /\ Tickets[k].group_link = NoLink
          /\ Tickets[k].country \in Countries
          /\ Tickets[k].payment_method \in PaymentMethods
          /\ Tickets[k].status = "open"

\* the positions a run can be at directly after position pc
WizardSucc(pc) ==
    CASE pc = "idle"       -> {"creating"}
      [] pc = "creating"   -> {"country", "idle"}
      [] pc = "country"    -> {"group_link", "idle"}
      [] pc = "group_link" -> {"link_text", "payment", "idle"}
      [] pc = "link_text"  -> {"payment", "idle"}
      [] pc = "payment"    -> {"finalizing", "idle"}
      [] pc = "finalizing" -> {"idle"}

\* C12: a step of a run moves it from one wait to the next one in the order
\* country, group-link choice, group-link text, payment method, finalizing
\* (or ends the run), never back and never to the same wait again; the run
\* waits for the group-link text exactly when the step is the choice of Yes;
\* it reaches finalizing only by the selection of a payment method; and the
\* ticket table changes only in the finalizing step of a run whose data holds
\* the selected payment method.
C12_WizardOrder ==
    [][/\ \A w \in Wizards :
            LET p == wiz[w].pc
                q == wiz'[w].pc
            IN  /\ wiz'[w] # wiz[w] => q \in WizardSucc(p)
                /\ (p # q /\ q = "link_text") <=> GroupLinkYes(w)
                /\ (p = "group_link" /\ q = "payment")
                      => wiz'[w].data.has_group_link = FALSE
                /\ (p # q /\ q = "finalizing")
                      => \E m \in PaymentMethods :
                            PaymentSelect(w, m) /\ wiz'[w].data.payment_method = m
       /\ get(config', "tickets", <<>>) # get(config, "tickets", <<>>)
            => \E w \in Wizards :
                  /\ Completes(w)
                  /\ wiz[w].pc = "finalizing"
                  /\ wiz[w].data.payment_method \in PaymentMethods ]_vars

\* a run that was asked for the link text has had its payment method selected
\* and is about to write its record
C12_Witness ==
    \E w \in Wizards :
        /\ wiz[w].pc = "finalizing"
        /\ wiz[w].data.has_group_link = TRUE
        /\ wiz[w].data.group_link \in Links
        /\ wiz[w].data.payment_method \in PaymentMethods

\* a wait of run w ends by timeout in this step
TimeoutOf(w) ==
    \/ CountryTimeout(w)
    \/ \E b \in BOOLEAN : GroupLinkTimeout(w, b)
    \/ LinkTimeout(w)
    \/ PaymentTimeout(w)

\* C13 (as the specification states it): when a wait of a run ends by timeout
\* and the run ends with it, the step posts the timed-out notice in the
\* ticket channel.
C13_TimeoutNotice ==
    [][\A w \in Wizards :
          (TimeoutOf(w) /\ wiz'[w].pc = "idle") => "timeout_notice" \in last']_vars

\* C14: no record exists, in any state, for the channel of a run in which a
\* wait ended by timeout; such a run is either over or waits at the payment
\* view with timed_out set, and is never at the step that writes the record.
C14_TimedOutNeverWrites ==
    /\ \A c \in timedOut : ~has_ticket(config, c)
    /\ \A w \in Wizards :
          wiz[w].ticket_channel \in timedOut
             => wiz[w].pc = "payment" /\ wiz[w].timed_out

\* a run whose wait timed out is over, its channel still exists without a
\* record, and another run has written its record
C14_Witness ==
    /\ \E c \in timedOut :
          /\ Resolves(c)
          /\ \A w \in Wizards : wiz[w].ticket_channel # c
    /\ \E k \in DOMAIN Tickets : int(k) \notin timedOut

\* C15: when the create_ticket_channel calls do not overlap, the stored
\* counter equals the number of channels created so far (a failed creation
\* leaves it as it was), and the k-th channel created carries the number k.
C15_SerialNumbers ==
    /\ get(config, "latest_ticket_number", 0) = nextId - 1
    /\ \A c \in DOMAIN chan : chan[c].name.number = c

\* a channel creation has just failed after two channels were created
C15_Witness ==
    /\ last = {"create_failed"}
    /\ DOMAIN chan = {1, 2}
    /\ get(config, "latest_ticket_number", 0) = 2

\* C16: a run takes its ticket number from the counter when it starts and
\* does not write the counter then; when its channel is created, the channel
\* is named after the number the run took, whatever the counter holds by
\* then, and that number is written back. So of two runs that took the same
\* number, the second to create its channel gives it the number and the name
\* the first one's channel has.
C16_CounterNotAtomic ==
    [][\A w \in Wizards :
          /\ \A u \in Users :
                (StartFlow(w, u) /\ wiz'[w].pc = "creating")
                   => /\ wiz'[w].ticket_number = get(config, "latest_ticket_number", 0) + 1
                      /\ config' = config
          /\ CreateChannelOk(w)
                => /\ chan'[nextId].name = ChannelName(wiz[w].ticket_number, 0)
                   /\ get(config', "latest_ticket_number", 0) = wiz[w].ticket_number
                   /\ \A v \in Wizards \ {w} :
                         (wiz[v].pc = "creating"
                            /\ wiz[v].ticket_number = wiz[w].ticket_number)
                            => wiz'[v].ticket_number = chan'[nextId].name.number ]_vars

\* two ticket channels exist that carry the same number and the same name
C16_Witness ==
    \E c1, c2 \in DOMAIN chan :
        /\ c1 # c2
        /\ chan[c1].name = chan[c2].name

\* C17 (as the specification states it): a press of the create button by a
\* member whose previous press is less than ticket_cooldown seconds old is
\* answered with the cooldown message; the run ends there and neither a
\* channel nor a record is created.
C17_CooldownRejects ==
    [][\A w \in Wizards, u \in Users :
          (/\ attempts[u] # Never
           /\ now - attempts[u] < get(config, "ticket_cooldown", DefaultCooldown)
           /\ StartFlow(w, u))
             => /\ last' = {"cooldown"}
                /\ wiz'[w].pc = "idle"
                /\ UNCHANGED <<config, chan>> ]_vars

\* the last search was called with date_from = date_to = a valid day
OneDaySearch ==
    /\ found.called
    /\ found.date_from = found.date_to
    /\ ParseDateArg(found.date_from) # NoDate

\* the listed file f passes every filter but the date filter
PassesOtherFilters(f) ==
    /\ f.name.ext \in {"txt", "html"}
    /\ ~ContentExcludes(f, found.query, found.user)

\* the search keeps all it finds: the limit exceeds the number of files and
\* no listed file that passes the other filters lacks a date
SearchKeepsAll ==
    /\ found.limit > Len(found.files)
    /\ \A i \in DOMAIN found.files :
          PassesOtherFilters(found.files[i]) => FileDate(found.files[i].name) # NoDate

Returned(f) ==
    \E i \in DOMAIN found.results : found.results[i].filename = f.name

\* C18 (amended): in a search with date_from = date_to = D, every returned
\* result whose file name yields a date has it in [D 00:00:00, D 23:59:59]; a
\* file dated D 00:00:00 or D 23:59:59 is not excluded by the date filter and,
\* when it passes the other filters and the search keeps all it finds, is
\* returned; a file dated on another day is never returned. A result whose
\* name yields no date is not subject to the date filter.
C18_OneDayInclusive ==
    OneDaySearch =>
       LET D == ParseDateArg(found.date_from)[1] IN
       /\ \A i \in DOMAIN found.results :
             found.results[i].date # NoDate
                => /\ found.results[i].date[1] = D
                   /\ found.results[i].date[2] \in 0..86399
       /\ \A i \in DOMAIN found.files :
             LET f == found.files[i] IN
             /\ FileDate(f.name) \in {<<D, 0>>, <<D, 86399>>}
                   => /\ ~DateExcludes(f.name, found.date_from, found.date_to)
                      /\ (PassesOtherFilters(f) /\ SearchKeepsAll) => Returned(f)
             /\ (FileDate(f.name) # NoDate /\ FileDate(f.name)[1] # D)
                   => ~Returned(f)

\* C18 (as the specification states it): in a search with date_from =
\* date_to = D, every returned result has a file-name date, and it lies in
\* [D 00:00:00, D 23:59:59].
C18_OnlyDatedInRange ==
    OneDaySearch =>
       \A i \in DOMAIN found.results :
          /\ found.results[i].date # NoDate
          /\ found.results[i].date[1] = ParseDateArg(found.date_from)[1]

\* a one-day search returned the file dated at the last second of the day and
\* left out a file of another day that passes the other filters
C18_Witness ==
    /\ OneDaySearch
    /\ \E i \in DOMAIN found.results :
          found.results[i].date = <<ParseDateArg(found.date_from)[1], 86399>>
    /\ \E i \in DOMAIN found.files :
          /\ PassesOtherFilters(found.files[i])
          /\ FileDate(found.files[i].name) # NoDate
          /\ ~Returned(found.files[i])

\* C19 (as the specification states it): a listed file whose name yields no
\* date and that passes the content filters is among the results, with or
\* without a date filter and whatever else is returned (the limit exceeding
\* the number of files).
C19_UndatedReturned ==
    found.called =>
       \A i \in DOMAIN found.files :
          LET f == found.files[i] IN
          (/\ FileDate(f.name) = NoDate
           /\ PassesOtherFilters(f)
           /\ found.limit > Len(found.files))
             => Returned(f)

\* C20 (as the specification states it): in the close handlers and in the
\* transcript handlers, the step in which save_transcript produces no file
\* sends nothing to the transcript channel and posts a failure notice.
C20_NoFileInformsUser ==
    [][\A h \in Handlers :
          (/\ Resolves(hnd[h].channel)
           /\ \/ CloseTranscript(h, "no_file")
              \/ TranscriptGenerate(h, "no_file"))
             => /\ "posted" \notin last'
                /\ "failed_notice" \in last' ]_vars

\* the messages that tell the actor the platform refused a channel mutation
FailureReports == {"forbidden", "cannot_delete_channel"}

\* add-participant or remove-participant by actor reaches its set_permissions
\* call in channel c
ReachesMutation(actor, c, target, removing) ==
    /\ has_ticket(config, c)
    /\ check_permissions(actor, c)
    /\ removing => get_ticket(config, c).user_id # target

TranscriptTraces ==
    {"file", "posted", "sent_notice", "failed_notice", "no_file",
     "no_transcript_notice", "generating_notice"}

\* C22: the step in which the confirmation dialog of a close or a delete is
\* answered Cancel, or times out, leaves the Store (so the ticket record), the
\* channels (name, overwrites, existence) and the set of confirmed deletions
\* as they were, generates and posts no transcript, and ends the handler: the
\* pending action does nothing more.
C22_NegativeAnswerAborts ==
    [][\A h \in Handlers :
          (hnd[h].pc = "confirm" /\ (DialogCancel(h) \/ DialogTimeout(h)))
             => /\ UNCHANGED <<config, chan, deleted>>
                /\ last' \cap TranscriptTraces = {}
                /\ hnd'[h] = IdleHandler ]_vars

\* a dialog has just been cancelled or has just timed out and no handler is
\* in progress: the ticket is still open, its channel not renamed, the
\* owner's overwrite in place
C22_Witness ==
    /\ last \in {{"cancelled"}, {"dialog_timeout"}}
    /\ \A h \in Handlers : hnd[h].pc = "idle"
    /\ \E c \in DOMAIN chan :
          /\ has_ticket(config, c) /\ get_ticket(config, c).status = "open"
          /\ chan[c].name.closed = 0
          /\ get_ticket(config, c).user_id \in chan[c].overwrites

\* the positions at which a run waits for an answer
WaitingStates == {"country", "group_link", "link_text", "payment"}

\* the stored counter ticket numbers are drawn from
Counter(c) == get(c, "latest_ticket_number", 0)

\* C23 (amended): a run's channel is provisioned, and its ticket number
\* written to the counter, before the first question: the platform creates a
\* channel only in the step that takes a run from create_ticket_channel to the
\* wait for the country, with no answer collected yet, and that step writes
\* the run's number to the counter. Every run that waits for an answer or
\* finalizes has its channel and its number. A timeout in a waiting state
\* leaves the channel in place and the counter as it is, and the finalizing
\* step creates no channel and does not touch the counter: it only writes the
\* record.
C23_ProvisionedBeforeQuestions ==
    [][/\ nextId' # nextId
            => \E w \in Wizards :
                  /\ wiz[w].pc = "creating" /\ wiz'[w].pc = "country"
                  /\ wiz'[w].ticket_channel = nextId
                  /\ DOMAIN chan' = DOMAIN chan \cup {nextId}
                  /\ Counter(config') = wiz[w].ticket_number
                  /\ "country" \notin DOMAIN wiz'[w].data
       /\ \A w \in Wizards :
             /\ wiz[w].pc \in WaitingStates \cup {"finalizing"}
                   => /\ wiz[w].ticket_channel \in 1..(nextId - 1)
                      /\ wiz[w].ticket_number >= 1
             /\ (wiz[w].pc \in WaitingStates /\ TimeoutOf(w))
                   => /\ UNCHANGED <<config, chan, nextId>>
                      /\ wiz[w].ticket_channel \in timedOut'
             /\ (wiz[w].pc = "finalizing" /\ Finalize(w))
                   => /\ UNCHANGED <<chan, nextId>>
                      /\ Counter(config') = Counter(config) ]_vars

\* C23 (as the specification states it): a run that waits for an answer has
\* no channel yet and has drawn no number from the counter, and so has a run
\* in which a wait timed out.
C23_ProvisionedAtFinalizing ==
    /\ \A w \in Wizards :
          wiz[w].pc \in WaitingStates
             => wiz[w].ticket_channel = None /\ Counter(config) = 0
    /\ \A c \in timedOut : c = None

\* a run timed out in a waiting state and is over: the channel created for it
\* exists, the counter holds its number, and it has no record
C23_Witness ==
    /\ \A w \in Wizards : wiz[w].pc = "idle"
    /\ \E c \in timedOut :
          /\ Resolves(c)
          /\ Counter(config) = chan[c].name.number
          /\ ~has_ticket(config, c)
    /\ Tickets = <<>>

RECURSIVE Sum(_)
Sum(s) == IF s = <<>> THEN 0 ELSE s[1] + Sum(Tail(s))

\* C24: a cooldown button writes the value computed from what its view read
\* when it was built, whatever the Store holds by then, so a change written
\* by another panel in between is gone after the write; the write saves the
\* whole document, in which every other key has the value the Store held
\* before the press, and leaves file and memory equal.
C24_StaleWriteWins ==
    [][\A p \in Panels :
          panel[p].open =>
             \A d \in CooldownSteps :
                CooldownPress(p, d)
                   => /\ get(config', "ticket_cooldown", 30)
                            = Max0(panel[p].cooldown + d)
                      /\ DOMAIN config'.data = DOMAIN config.data
                      /\ \A k \in (DOMAIN config.data) \ {"ticket_cooldown"} :
                            config'.data[k] = config.data[k]
                      /\ config'.file = config'.data ]_vars

\* only increases were pressed, each write completed, and the stored cooldown
\* is below the default plus all of them: one panel's increase is lost
C24_Witness ==
    /\ Len(presses) >= 2
    /\ \A i \in DOMAIN presses : presses[i] > 0
    /\ get(config, "ticket_cooldown", 30) < DefaultCooldown + Sum(presses)
    /\ get(config, "staff_role_ids", <<>>) # <<>>

\* C25 (as the specification states it): no step lowers the stored ticket
\* counter.
C25_CounterNeverDecreases ==
    [][Counter(config') >= Counter(config)]_vars

\* C26: while channels are removed only by the bot's delete, every record
\* with status "open" is filed under the id of a channel that exists; a run
\* writes its record only when its channel exists, and a delete removes the
\* channel only after the record is gone.
C26_OpenRecordHasChannel ==
    [][/\ \A k \in DOMAIN Tickets' :
             Tickets'[k].status = "open" => int(k) \in DOMAIN chan'
       /\ \A w \in Wizards :
             (wiz[w].pc = "finalizing" /\ Completes(w))
                => wiz[w].ticket_channel \in DOMAIN chan
       /\ \A h \in Handlers :
             (hnd[h].pc = "deleting" /\ DeleteChannel(h, TRUE))
                => ~has_ticket(config, hnd[h].channel) ]_vars

\* the bot has just removed the channel of a deleted ticket while another
\* ticket is open
C26_Witness ==
    /\ last = {"deleted"}
    /\ \E c \in deleted : ~Resolves(c) /\ ~has_ticket(config, c)
    /\ \E k \in DOMAIN Tickets : Tickets[k].status = "open" /\ Resolves(int(k))

\* C27 (as the specification states it): an answer supplied by a member other
\* than the user who invoked the run changes neither the run's position nor
\* its recorded answers.
C27_OnlyInvokerAnswers ==
    [][\A w \in Wizards, actor \in Users :
          (wiz[w].pc \in WaitingStates /\ actor # wiz[w].user /\ WizardInput(w, actor))
             => wiz'[w] = wiz[w] ]_vars

\* C28: with timers that fire and platform calls that return, every run that
\* was started ends, whether or not anybody answers.
C28_RunsEnd ==
    \A w \in Wizards : (wiz[w].pc # "idle") ~> (wiz[w].pc = "idle")

\* two runs have ended by the timeout of a wait, no record was written, and
\* no run is in progress
C28_Witness ==
    /\ Cardinality(timedOut) = 2
    /\ Tickets = <<>>
    /\ \A w \in Wizards : wiz[w].pc = "idle"
    /\ \A c \in timedOut : Resolves(c)

\* C29 (as the specification states it): the closing effects are carried out
\* at most once for a ticket, so its channel's name never carries the
\* "-closed" suffix twice, and a close that has been confirmed writes the
\* status and posts the notices only if the ticket is not closed yet.
C29_ClosesAtMostOnce ==
    /\ \A c \in DOMAIN chan : chan[c].name.closed <= 1
    /\ \A h \in Handlers :
          (hnd[h].op = "close" /\ hnd[h].pc \in {"generating", "no_transcript"}
             /\ has_ticket(config, hnd[h].channel))
             => get_ticket(config, hnd[h].channel).status = "open"


\* C30 (as the specification states it): when the wait on the group link view
\* ends by timeout, in either order of on_timeout and the resumption of the
\* flow, the step does not record group_link "No link provided" and does not
\* go on to the payment view.
C30_TimeoutIsNotNo ==
    [][\A w \in Wizards :
          (\E b \in BOOLEAN : GroupLinkTimeout(w, b))
             => /\ wiz'[w].pc # "payment"
                /\ "group_link" \notin DOMAIN wiz'[w].data]_vars

====
